---- MODULE Spec2Model ----
(***************************************************************************)
(* The breakpoint panel of the debugger (BreakpointWidget.cpp): a table    *)
(* that shows the instruction breakpoints and the memory checks of the     *)
(* emulated CPU and forwards the user's edits to the two stores.           *)
(*                                                                         *)
(* The widget is in the source; the two stores (BreakPoints, MemChecks),   *)
(* the expression parser and the emulation thread are not, and are         *)
(* modelled from their description in the specification.                   *)
(***************************************************************************)
EXTENDS Integers, Sequences, FiniteSets

(***************************************************************************)
(* Bounds of the model.                                                    *)
(***************************************************************************)
\* Addresses the callers pass are 0..MaxAddr.
MaxAddr == 1
\* Longest text typed into an address cell.
MaxTextLen == 1
\* Most operations in a run.
MaxOps == 3

\* Width of an address (u32).
AddrBits == 32

Addrs == 0..MaxAddr

(***************************************************************************)
(* enum TableColumns                                                       *)
(***************************************************************************)
ENABLED_COLUMN == 0
TYPE_COLUMN == 1
SYMBOL_COLUMN == 2
ADDRESS_COLUMN == 3
END_ADDRESS_COLUMN == 4
BREAK_COLUMN == 5
LOG_COLUMN == 6
READ_COLUMN == 7
WRITE_COLUMN == 8
CONDITION_COLUMN == 9

\* m_table->setColumnCount(10)
ColumnCount == 10
Columns == 0..(ColumnCount - 1)

(***************************************************************************)
(* Optional values: std::optional<T> is <<>> (nullopt) or <<v>>.           *)
(***************************************************************************)
None == <<>>
Some(v) == <<v>>

(***************************************************************************)
(* QString::toUInt(&ok, 16) on the text of an address cell.  A text is a   *)
(* sequence of characters; "g" stands for any character that is no         *)
(* hexadecimal digit.  The result is <<ok, value>>: ok is false for the    *)
(* empty text, for a text with a character that is no digit, and for a     *)
(* value that does not fit 32 bits (more than AddrBits / 4 digits after    *)
(* the leading zeros); the value is then 0.                                *)
(***************************************************************************)
Chars == {"0", "1", "g"}

HexDigits == {"0", "1", "2", "3", "4", "5", "6", "7", "8", "9",
              "a", "b", "c", "d", "e", "f"}

DigitValue(c) ==
  CASE c = "0" -> 0 [] c = "1" -> 1 [] c = "2" -> 2 [] c = "3" -> 3
    [] c = "4" -> 4 [] c = "5" -> 5 [] c = "6" -> 6 [] c = "7" -> 7
    [] c = "8" -> 8 [] c = "9" -> 9 [] c = "a" -> 10 [] c = "b" -> 11
    [] c = "c" -> 12 [] c = "d" -> 13 [] c = "e" -> 14 [] c = "f" -> 15
    [] OTHER -> 0

RECURSIVE HexValue(_)
HexValue(text) ==
  IF text = <<>> THEN 0
  ELSE 16 * HexValue(SubSeq(text, 1, Len(text) - 1)) + DigitValue(text[Len(text)])

RECURSIVE SignificantLen(_)
SignificantLen(text) ==
  IF text = <<>> THEN 0
  ELSE IF text[1] = "0" THEN SignificantLen(Tail(text))
  ELSE Len(text)

toUInt(text) ==
  LET wellFormed == Len(text) > 0 /\ \A i \in 1..Len(text) : text[i] \in HexDigits
      ok == wellFormed /\ 4 * SignificantLen(text) <= AddrBits
  IN  IF ok THEN <<TRUE, HexValue(text)>> ELSE <<FALSE, 0>>

RECURSIVE TextsOfLen(_)
TextsOfLen(n) ==
  IF n = 0 THEN {<<>>}
  ELSE {Append(t, c) : t \in TextsOfLen(n - 1), c \in Chars}

\* The texts a user types into an address cell.
Texts == UNION {TextsOfLen(n) : n \in 0..MaxTextLen}

(***************************************************************************)
(* Expression::TryParse: the parsed expression, or nullopt when the text   *)
(* does not parse.  An expression is represented by its text (GetText).    *)
(***************************************************************************)
ValidExprs == {"r3 == 5"}
CondTexts == {"r3 == 5", "(("}

TryParse(text) == IF text \in ValidExprs THEN Some(text) ELSE None

\* condition.isEmpty() ? nullopt : TryParse(condition)
ParseCondition(condition) == IF condition = "" THEN None ELSE TryParse(condition)

(***************************************************************************)
(* The entries of the two stores (TBreakPoint, TMemCheck) and the values   *)
(* a default-constructed entry holds.                                      *)
(***************************************************************************)
DefaultBP ==
  [address |-> 0, is_enabled |-> FALSE, is_temporary |-> FALSE,
   break_on_hit |-> FALSE, log_on_hit |-> FALSE, condition |-> None]

DefaultMC ==
  [start_address |-> 0, end_address |-> 0, is_ranged |-> FALSE,
   is_enabled |-> TRUE, is_break_on_read |-> TRUE, is_break_on_write |-> TRUE,
   log_on_hit |-> TRUE, break_on_hit |-> TRUE, condition |-> None]

(***************************************************************************)
(* BreakPoints: the store of instruction breakpoints, a sequence in        *)
(* insertion order, unique by address.                                     *)
(***************************************************************************)
HasBP(store, address) == \E i \in 1..Len(store) : store[i].address = address

\* GetBreakpoint: a pointer to the entry, or nullptr.
GetBreakpoint(store, address) ==
  IF HasBP(store, address)
  THEN Some(store[CHOOSE i \in 1..Len(store) : store[i].address = address])
  ELSE None

BPRemove(store, address) == SelectSeq(store, LAMBDA b : b.address # address)

\* BPAdd with the check for a prior entry left out: the entry is appended whatever the store holds.
BPAdd_Append(store, bp) == Append(store, bp)

\* Add(TBreakPoint): any prior entry at the address is removed first.
BPAdd(store, bp) == Append(BPRemove(store, bp.address), bp)

\* Add(address, temp, break_on_hit, log_on_hit, condition): a new, enabled entry.
BPAddNew(store, address, temp, break_on_hit, log_on_hit, condition) ==
  BPAdd(store, [address |-> address, is_enabled |-> TRUE, is_temporary |-> temp,
                break_on_hit |-> break_on_hit, log_on_hit |-> log_on_hit,
                condition |-> condition])

\* ToggleBreakPoint: flips is_enabled; nothing happens when the entry is absent.
BPToggle(store, address) ==
  [i \in 1..Len(store) |->
     IF store[i].address = address
     THEN [store[i] EXCEPT !.is_enabled = ~store[i].is_enabled]
     ELSE store[i]]

BPClear(store) == <<>>

RECURSIVE BPAddFromStrings(_, _)
BPAddFromStrings(store, lines) ==
  IF lines = <<>> THEN store
  ELSE BPAddFromStrings(BPAdd(store, Head(lines)), Tail(lines))

(***************************************************************************)
(* MemChecks: the store of memory checks, a sequence in insertion order,   *)
(* unique by start_address.                                                *)
(***************************************************************************)
HasMC(store, address) == \E i \in 1..Len(store) : store[i].start_address = address

\* GetMemCheck: a pointer to the entry, or nullptr.
GetMemCheck(store, address) ==
  IF HasMC(store, address)
  THEN Some(store[CHOOSE i \in 1..Len(store) : store[i].start_address = address])
  ELSE None

MCRemove(store, address) == SelectSeq(store, LAMBDA m : m.start_address # address)

\* Add(TMemCheck): an entry with the same start_address is replaced in place.
MCAdd(store, mc) ==
  IF HasMC(store, mc.start_address)
  THEN [i \in 1..Len(store) |->
          IF store[i].start_address = mc.start_address THEN mc ELSE store[i]]
  ELSE Append(store, mc)

\* ToggleBreakPoint: flips is_enabled; nothing happens when the entry is absent.
MCToggle(store, address) ==
  [i \in 1..Len(store) |->
     IF store[i].start_address = address
     THEN [store[i] EXCEPT !.is_enabled = ~store[i].is_enabled]
     ELSE store[i]]

MCClear(store) == <<>>

RECURSIVE MCAddFromStrings(_, _)
MCAddFromStrings(store, lines) ==
  IF lines = <<>> THEN store
  ELSE MCAddFromStrings(MCAdd(store, Head(lines)), Tail(lines))

(***************************************************************************)
(* The state.                                                              *)
(*   bps, mcs   the two stores                                             *)
(*   table      the rows of m_table: per row the data of its first item    *)
(*              (ADDRESS_ROLE, IS_MEMCHECK_ROLE)                           *)
(*   visible    isVisible()                                                *)
(*   crashed    the process has faulted (a null pointer was read)          *)
(*   lastOp     the last operation: its name, whether the entry it was     *)
(*              aimed at was in its store, the calls it made in order, and *)
(*              the sizes of the two stores before it                      *)
(*   nops       the number of operations so far                            *)
(* and, for the runs in which the emulation thread evaluates hits while    *)
(* the UI thread is inside a handler:                                      *)
(*   uiPc       where the UI thread is: "idle", or the store call it is    *)
(*              about to make                                              *)
(*   pending    what that call will be passed                              *)
(*   emuSaw     the last hit evaluation: the pc, whether an enabled        *)
(*              breakpoint was found, and whether the UI thread was inside *)
(*              a handler at that moment                                   *)
(***************************************************************************)
VARIABLES bps, mcs, table, visible, crashed, lastOp, nops, uiPc, pending, emuSaw

vars == <<bps, mcs, table, visible, crashed, lastOp, nops, uiPc, pending, emuSaw>>

Op(name, present, events) ==
  [name |-> name, present |-> present, events |-> events,
   before |-> <<Len(bps), Len(mcs)>>]

(***************************************************************************)
(* Update(): when the widget is visible the table is rebuilt, one row per  *)
(* breakpoint and then one row per memory check; otherwise it is left.     *)
(***************************************************************************)
BPRow(bp) == [address |-> bp.address, is_memcheck |-> FALSE]
MCRow(mc) == [address |-> mc.start_address, is_memcheck |-> TRUE]

Rows(b, m) ==
  [i \in 1..(Len(b) + Len(m)) |->
     IF i <= Len(b) THEN BPRow(b[i]) ELSE MCRow(m[i - Len(b)])]

\* Update() that forgets the memory checks.
Update_NoMemChecks(vis, tbl, b, m) == IF ~vis THEN tbl ELSE Rows(b, <<>>)

Update(vis, tbl, b, m) == IF ~vis THEN tbl ELSE Rows(b, m)

Init ==
  /\ bps = <<>>
  /\ mcs = <<>>
  /\ table = <<>>
  /\ visible \in BOOLEAN
  /\ crashed = FALSE
  /\ lastOp = Op("Init", FALSE, <<>>)
  /\ nops = 0
  /\ uiPc = "idle"
  /\ pending = None
  /\ emuSaw = None

\* One more operation, while the run is short of MaxOps.
Count ==
  /\ ~crashed
  /\ nops < MaxOps
  /\ nops' = nops + 1

\* A handler that runs from its first line to its last on the UI thread.
Step ==
  /\ Count
  /\ uiPc = "idle"
  /\ UNCHANGED <<uiPc, pending, emuSaw>>

\* The operation ran to its end: the stores, the table, the record of it.
Commit(name, present, events, b, m, tbl) ==
  /\ Step
  /\ bps' = b
  /\ mcs' = m
  /\ table' = tbl
  /\ lastOp' = Op(name, present, events)
  /\ UNCHANGED <<visible, crashed>>

\* The operation read through a null pointer and the process died.
Fault(name) ==
  /\ Step
  /\ crashed' = TRUE
  /\ lastOp' = Op(name, FALSE, <<"fault">>)
  /\ UNCHANGED <<bps, mcs, table, visible>>

(***************************************************************************)
(* AddBP(addr, temp, break_on_hit, log_on_hit, condition)                  *)
(***************************************************************************)
AddBPEvents == <<"Add", "emit", "Update">>

AddBP(addr, temp, break_on_hit, log_on_hit, condition) ==
  /\ ~crashed
  /\ LET b == BPAddNew(bps, addr, temp, break_on_hit, log_on_hit,
                       ParseCondition(condition))
     IN  Commit("AddBP", HasBP(bps, addr), AddBPEvents, b, mcs,
                Update(visible, table, b, mcs))

(***************************************************************************)
(* AddAddressMBP and AddRangedMBP.  The fields the widget does not set     *)
(* keep their default (is_enabled).                                        *)
(***************************************************************************)
AddressCheck(addr, on_read, on_write, do_log, do_break, condition) ==
  [DefaultMC EXCEPT !.start_address = addr, !.end_address = addr,
                    !.is_ranged = FALSE,
                    !.is_break_on_read = on_read, !.is_break_on_write = on_write,
                    !.log_on_hit = do_log, !.break_on_hit = do_break,
                    !.condition = ParseCondition(condition)]

RangedCheck(from, to, on_read, on_write, do_log, do_break, condition) ==
  [DefaultMC EXCEPT !.start_address = from, !.end_address = to,
                    !.is_ranged = TRUE,
                    !.is_break_on_read = on_read, !.is_break_on_write = on_write,
                    !.log_on_hit = do_log, !.break_on_hit = do_break,
                    !.condition = ParseCondition(condition)]

AddMBPEvents == <<"Add", "emit", "Update">>

AddAddressMBP(addr, on_read, on_write, do_log, do_break, condition) ==
  /\ ~crashed
  /\ LET m == MCAdd(mcs, AddressCheck(addr, on_read, on_write, do_log, do_break,
                                      condition))
     IN  Commit("AddAddressMBP", HasMC(mcs, addr), AddMBPEvents, bps, m,
                Update(visible, table, bps, m))

AddRangedMBP(from, to, on_read, on_write, do_log, do_break, condition) ==
  /\ ~crashed
  /\ LET m == MCAdd(mcs, RangedCheck(from, to, on_read, on_write, do_log, do_break,
                                     condition))
     IN  Commit("AddRangedMBP", HasMC(mcs, from), AddMBPEvents, bps, m,
                Update(visible, table, bps, m))

(***************************************************************************)
(* What a read through old_bp / old_mbp yields.  For an entry of the store *)
(* it is that entry.  For an address the store does not hold the pointer   *)
(* is null and the read is undefined: the process faults, or the read      *)
(* yields some value and the function goes on.                             *)
(***************************************************************************)
GarbageBPs ==
  {[DefaultBP EXCEPT !.is_enabled = TRUE, !.log_on_hit = TRUE,
                     !.condition = Some("r3 == 5")]}

GarbageMCs ==
  {[DefaultMC EXCEPT !.end_address = MaxAddr, !.is_enabled = FALSE]}

OldBPs(store, address) ==
  IF HasBP(store, address) THEN {GetBreakpoint(store, address)[1]} ELSE GarbageBPs

OldMCs(store, address) ==
  IF HasMC(store, address) THEN {GetMemCheck(store, address)[1]} ELSE GarbageMCs

(***************************************************************************)
(* EditBreakpoint(address, edit, string)                                   *)
(***************************************************************************)
\* <<ok, bp.address>> that accepts whatever toUInt returns.
EditBreakpointAddress_IgnoreOk(address, edit, string) ==
  IF edit = ADDRESS_COLUMN /\ string # None
  THEN <<TRUE, toUInt(string[1])[2]>>
  ELSE <<TRUE, address>>

\* <<ok, bp.address>>: the address of the edited breakpoint; not ok: return.
EditBreakpointAddress(address, edit, string) ==
  IF edit = ADDRESS_COLUMN /\ string # None
  THEN toUInt(string[1])
  ELSE <<TRUE, address>>

\* The condition of the edited entry (the same code in EditBreakpoint and EditMBP).
EditCondition(old, edit, string) ==
  IF edit = CONDITION_COLUMN /\ string # None THEN TryParse(string[1])
  ELSE IF old.condition # None /\ edit # CONDITION_COLUMN
       THEN TryParse(old.condition[1])
       ELSE None

\* The breakpoint EditBreakpoint builds; is_temporary is not set and keeps its default.
EditedBP(old, address, edit, string) ==
  [DefaultBP EXCEPT
     !.is_enabled = IF edit = ENABLED_COLUMN THEN ~old.is_enabled ELSE old.is_enabled,
     !.log_on_hit = IF edit = LOG_COLUMN THEN ~old.log_on_hit ELSE old.log_on_hit,
     !.break_on_hit = IF edit = BREAK_COLUMN THEN ~old.break_on_hit
                      ELSE old.break_on_hit,
     !.address = EditBreakpointAddress(address, edit, string)[2],
     !.condition = EditCondition(old, edit, string)]

EditBreakpointEvents == <<"Remove", "Add", "emit", "Update">>

\* The part of EditBreakpoint after the reads through old_bp.
EditBreakpointWith(name, old, address, edit, string) ==
  IF ~EditBreakpointAddress(address, edit, string)[1]
  THEN Commit(name, HasBP(bps, address), <<>>, bps, mcs, table)
  ELSE LET b == BPAdd(BPRemove(bps, address), EditedBP(old, address, edit, string))
       IN  Commit(name, HasBP(bps, address), EditBreakpointEvents, b, mcs,
                  Update(visible, table, b, mcs))

EditBreakpointCall(name, address, edit, string) ==
  \/ /\ ~HasBP(bps, address)
     /\ Fault(name)
  \/ \E old \in OldBPs(bps, address) :
       EditBreakpointWith(name, old, address, edit, string)

EditBreakpoint(address, edit, string) ==
  /\ ~crashed
  /\ EditBreakpointCall("EditBreakpoint", address, edit, string)

(***************************************************************************)
(* EditMBP(address, edit, string)                                          *)
(***************************************************************************)
\* <<ok, mbp.start_address, mbp.end_address, address_changed>>; not ok: return.
EditMBPAddresses(old, edit, string) ==
  IF (edit = ADDRESS_COLUMN \/ edit = END_ADDRESS_COLUMN) /\ string # None
  THEN LET parsed == toUInt(string[1])
           new_address == parsed[2]
       IN  IF ~parsed[1] THEN <<FALSE, old.start_address, old.end_address, FALSE>>
           ELSE IF edit = ADDRESS_COLUMN
                THEN <<TRUE, new_address, old.end_address, TRUE>>
                ELSE <<TRUE, old.start_address, new_address, FALSE>>
  ELSE <<TRUE, old.start_address, old.end_address, FALSE>>

\* The memory check EditMBP builds.
EditedMC(old, edit, string) ==
  LET a == EditMBPAddresses(old, edit, string)
  IN  [DefaultMC EXCEPT
         !.is_enabled = IF edit = ENABLED_COLUMN THEN ~old.is_enabled
                        ELSE old.is_enabled,
         !.log_on_hit = IF edit = LOG_COLUMN THEN ~old.log_on_hit ELSE old.log_on_hit,
         !.break_on_hit = IF edit = BREAK_COLUMN THEN ~old.break_on_hit
                          ELSE old.break_on_hit,
         !.is_break_on_read = IF edit = READ_COLUMN THEN ~old.is_break_on_read
                              ELSE old.is_break_on_read,
         !.is_break_on_write = IF edit = WRITE_COLUMN THEN ~old.is_break_on_write
                               ELSE old.is_break_on_write,
         !.start_address = a[2],
         !.end_address = a[3],
         !.is_ranged = (a[2] # a[3]),
         !.condition = EditCondition(old, edit, string)]

\* The store after Add(mbp) and, when the start address changed, Remove(address).
EditMBPStore(store, old, address, edit, string) ==
  LET added == MCAdd(store, EditedMC(old, edit, string))
  IN  IF EditMBPAddresses(old, edit, string)[4] THEN MCRemove(added, address)
      ELSE added

EditMBPEvents(address_changed) ==
  IF address_changed THEN <<"Add", "Remove", "emit", "Update">>
  ELSE <<"Add", "emit", "Update">>

\* The part of EditMBP after the reads of the flags through old_mbp.
EditMBPWith(name, old, address, edit, string) ==
  IF ~EditMBPAddresses(old, edit, string)[1]
  THEN Commit(name, HasMC(mcs, address), <<>>, bps, mcs, table)
  ELSE LET m == EditMBPStore(mcs, old, address, edit, string)
       IN  Commit(name, HasMC(mcs, address),
                  EditMBPEvents(EditMBPAddresses(old, edit, string)[4]), bps, m,
                  Update(visible, table, bps, m))

EditMBPCall(name, address, edit, string) ==
  \/ /\ ~HasMC(mcs, address)
     /\ Fault(name)
  \/ \E old \in OldMCs(mcs, address) :
       EditMBPWith(name, old, address, edit, string)

EditMBP(address, edit, string) ==
  /\ ~crashed
  /\ EditMBPCall("EditMBP", address, edit, string)

(***************************************************************************)
(* OnClicked(item): a click on the cell (row, column) of the table.        *)
(***************************************************************************)
\* The Active cell without its emit.
ToggleEvents_NoEmit == <<"ToggleBreakPoint", "Update">>

ToggleEvents == <<"ToggleBreakPoint", "emit", "Update">>

\* The Active cell handled as the other cells are, by EditBreakpoint / EditMBP.
ToggledStores_ViaEdit(b, m, item) ==
  IF item.is_memcheck
  THEN <<b, IF HasMC(m, item.address)
            THEN EditMBPStore(m, GetMemCheck(m, item.address)[1], item.address,
                              ENABLED_COLUMN, None)
            ELSE m>>
  ELSE <<IF HasBP(b, item.address)
         THEN BPAdd(BPRemove(b, item.address),
                    EditedBP(GetBreakpoint(b, item.address)[1], item.address,
                             ENABLED_COLUMN, None))
         ELSE b, m>>

\* The two stores after a click on the Active cell of the row of `item`.
ToggledStores(b, m, item) ==
  IF item.is_memcheck THEN <<b, MCToggle(m, item.address)>>
  ELSE <<BPToggle(b, item.address), m>>

OnClicked(row, column) ==
  /\ ~crashed
  /\ visible
  /\ row \in 1..Len(table)
  /\ LET address == table[row].address
         is_memcheck == table[row].is_memcheck
         present == IF is_memcheck THEN HasMC(mcs, address) ELSE HasBP(bps, address)
     IN  \/ /\ column \in {ADDRESS_COLUMN, END_ADDRESS_COLUMN}
            /\ Commit("OnClicked", present, <<>>, bps, mcs, table)
         \/ /\ column = ENABLED_COLUMN
            /\ LET t == ToggledStores(bps, mcs, table[row])
               IN  Commit("OnClickedEnabled", present, ToggleEvents, t[1], t[2],
                          Update(visible, table, t[1], t[2]))
         \/ /\ column \notin {ADDRESS_COLUMN, END_ADDRESS_COLUMN, ENABLED_COLUMN}
            /\ is_memcheck
            /\ EditMBPCall("OnClickedMBP", address, column, None)
         \/ /\ column \notin {ADDRESS_COLUMN, END_ADDRESS_COLUMN, ENABLED_COLUMN}
            /\ ~is_memcheck
            /\ EditBreakpointCall("OnClickedBP", address, column, None)

(***************************************************************************)
(* OnContextMenu(pos) on a row, and then the menu's Delete.                *)
(***************************************************************************)
DeleteEvents == <<"Remove", "emit", "Update">>

OnContextMenuDelete(row) ==
  /\ ~crashed
  /\ visible
  /\ row \in 1..Len(table)
  /\ LET bp_address == table[row].address
         is_memory_breakpoint == table[row].is_memcheck
     IN  \/ /\ ~is_memory_breakpoint
            /\ IF ~HasBP(bps, bp_address)
               THEN Commit("Delete", FALSE, <<>>, bps, mcs, table)
               ELSE LET b == BPRemove(bps, bp_address)
                    IN  Commit("Delete", TRUE, DeleteEvents, b, mcs,
                               Update(visible, table, b, mcs))
         \/ /\ is_memory_breakpoint
            /\ IF ~HasMC(mcs, bp_address)
               THEN Commit("Delete", FALSE, <<>>, bps, mcs, table)
               ELSE LET m == MCRemove(mcs, bp_address)
                    IN  Commit("Delete", TRUE, DeleteEvents, bps, m,
                               Update(visible, table, bps, m))

(***************************************************************************)
(* OnClear()                                                               *)
(***************************************************************************)
\* OnClear without m_table->setRowCount(0).
ClearedTable_Kept(tbl) == tbl

\* m_table->setRowCount(0)
ClearedTable(tbl) == <<>>

OnClearEvents ==
  <<"ClearAllBreakpoints", "ClearAllMemChecks", "setRowCount", "emit", "Update">>

OnClear ==
  /\ ~crashed
  /\ LET b == BPClear(bps)
         m == MCClear(mcs)
     IN  Commit("OnClear", bps # <<>> \/ mcs # <<>>, OnClearEvents, b, m,
                Update(visible, ClearedTable(table), b, m))

(***************************************************************************)
(* OnLoad().  The per-game settings file: whether it is there, and each of *)
(* its two sections, None when the section is missing, else its lines.     *)
(***************************************************************************)
IniBP(address, temp) ==
  [DefaultBP EXCEPT !.address = address, !.is_enabled = TRUE,
                    !.is_temporary = temp, !.break_on_hit = TRUE]

IniMC(start, end) ==
  [DefaultMC EXCEPT !.start_address = start, !.end_address = end,
                    !.is_ranged = (start # end)]

IniBPSections ==
  {None, Some(<<>>), Some(<<IniBP(0, TRUE), IniBP(MaxAddr, FALSE)>>)}

IniMCSections ==
  {None, Some(<<>>), Some(<<IniMC(0, MaxAddr), IniMC(MaxAddr, MaxAddr)>>)}

IniFiles ==
  [exists : {TRUE}, bp : IniBPSections, mc : IniMCSections]
  \cup {[exists |-> FALSE, bp |-> None, mc |-> None]}

\* The breakpoint store after OnLoad that clears it whatever the file holds.
LoadedBPs_AlwaysClear(store, file) ==
  IF file.exists /\ file.bp # None
  THEN BPAddFromStrings(BPClear(store), file.bp[1])
  ELSE BPClear(store)

\* The breakpoint store after OnLoad.
LoadedBPs(store, file) ==
  IF file.exists /\ file.bp # None
  THEN BPAddFromStrings(BPClear(store), file.bp[1])
  ELSE store

\* The memory check store after OnLoad.
LoadedMCs(store, file) ==
  IF file.exists /\ file.mc # None
  THEN MCAddFromStrings(MCClear(store), file.mc[1])
  ELSE store

OnLoadEvents(file) ==
  IF ~file.exists THEN <<>>
  ELSE (IF file.bp # None THEN <<"Clear", "AddFromStrings">> ELSE <<>>)
       \o (IF file.mc # None THEN <<"Clear", "AddFromStrings">> ELSE <<>>)
       \o <<"emit", "Update">>

OnLoad(file) ==
  /\ ~crashed
  /\ LET b == LoadedBPs(bps, file)
         m == LoadedMCs(mcs, file)
     IN  IF ~file.exists
         THEN Commit("OnLoad", FALSE, OnLoadEvents(file), bps, mcs, table)
         ELSE Commit("OnLoad", TRUE, OnLoadEvents(file), b, m,
                     Update(visible, table, b, m))

(***************************************************************************)
(* showEvent (the widget becomes visible) and setHidden(true)/closeEvent.  *)
(***************************************************************************)
ShowEvent ==
  /\ Step
  /\ ~visible
  /\ visible' = TRUE
  /\ table' = Update(TRUE, table, bps, mcs)
  /\ lastOp' = Op("showEvent", FALSE, <<"Update">>)
  /\ UNCHANGED <<bps, mcs, crashed>>

Hide ==
  /\ Step
  /\ visible
  /\ visible' = FALSE
  /\ lastOp' = Op("Hide", FALSE, <<>>)
  /\ UNCHANGED <<bps, mcs, table, crashed>>

(***************************************************************************)
(* The emulation thread: an enabled temporary breakpoint is hit and is     *)
(* removed from the store.  The widget is not told.                        *)
(***************************************************************************)
HitTemporary(i) ==
  /\ Step
  /\ i \in 1..Len(bps)
  /\ bps[i].is_enabled
  /\ bps[i].is_temporary
  /\ bps' = BPRemove(bps, bps[i].address)
  /\ lastOp' = Op("HitEvaluator", TRUE, <<"Remove">>)
  /\ UNCHANGED <<mcs, table, visible, crashed>>

(***************************************************************************)
(* The inputs.                                                             *)
(***************************************************************************)
\* The addresses an entry can be at: those passed in and those typed.
AllAddrs == Addrs \cup {toUInt(t)[2] : t \in Texts}

\* (edit, string) of EditBreakpoint and EditMBP: a click passes no string, an
\* edited cell passes its text.
EditInputs ==
  {<<c, None>> : c \in Columns}
  \cup {<<c, Some(t)>> : c \in {ADDRESS_COLUMN, END_ADDRESS_COLUMN}, t \in Texts}
  \cup {<<CONDITION_COLUMN, Some(t)>> : t \in CondTexts}

\* (temp, break_on_hit, log_on_hit, condition) of AddBP; the first is AddBP(addr).
BPInputs ==
  {<<FALSE, TRUE, TRUE, "">>, <<TRUE, TRUE, FALSE, "r3 == 5">>}

\* (on_read, on_write, do_log, do_break, condition) of the two memory check adds.
MBPInputs ==
  {<<TRUE, TRUE, TRUE, TRUE, "">>, <<TRUE, FALSE, FALSE, TRUE, "r3 == 5">>}

Next ==
  \/ \E addr \in Addrs, i \in BPInputs : AddBP(addr, i[1], i[2], i[3], i[4])
  \/ \E addr \in Addrs, i \in MBPInputs :
       AddAddressMBP(addr, i[1], i[2], i[3], i[4], i[5])
  \/ \E from, to \in Addrs, i \in MBPInputs :
       AddRangedMBP(from, to, i[1], i[2], i[3], i[4], i[5])
  \/ \E address \in AllAddrs, e \in EditInputs : EditBreakpoint(address, e[1], e[2])
  \/ \E address \in AllAddrs, e \in EditInputs : EditMBP(address, e[1], e[2])
  \/ \E row \in 1..Len(table), column \in Columns : OnClicked(row, column)
  \/ \E row \in 1..Len(table) : OnContextMenuDelete(row)
  \/ OnClear
  \/ \E file \in IniFiles : OnLoad(file)
  \/ ShowEvent
  \/ Hide
  \/ \E i \in 1..Len(bps) : HitTemporary(i)

Spec == Init /\ [][Next]_vars

(***************************************************************************)
(* The two threads.  The handlers above run on the UI thread; the          *)
(* emulation thread evaluates hits against the same two stores.  The       *)
(* widget takes no lock, so the emulation thread can run between any two   *)
(* store calls of a handler (each store call taken as atomic).  Below,     *)
(* EditBreakpoint and OnLoad are cut at their store calls.                 *)
(***************************************************************************)
\* The store a handler stopped at `pc` is in the middle of changing.
StoreInChange(pc) ==
  CASE pc = "EditBreakpoint:Add" -> "BreakPoints"
    [] pc = "OnLoad:BreakPoints.AddFromStrings" -> "BreakPoints"
    [] pc = "OnLoad:MemChecks.AddFromStrings" -> "MemChecks"
    [] OTHER -> "none"

\* EditBreakpoint up to and including Remove(address).
UiEditBreakpointRemove(address, edit, string) ==
  /\ Count
  /\ uiPc = "idle"
  /\ HasBP(bps, address)
  /\ EditBreakpointAddress(address, edit, string)[1]
  /\ bps' = BPRemove(bps, address)
  /\ pending' = Some(EditedBP(GetBreakpoint(bps, address)[1], address, edit, string))
  /\ uiPc' = "EditBreakpoint:Add"
  /\ lastOp' = Op("EditBreakpoint", TRUE, <<"Remove">>)
  /\ UNCHANGED <<mcs, table, visible, crashed, emuSaw>>

\* EditBreakpoint from Add(bp) to its end.
UiEditBreakpointAdd ==
  /\ Count
  /\ uiPc = "EditBreakpoint:Add"
  /\ bps' = BPAdd(bps, pending[1])
  /\ table' = Update(visible, table, bps', mcs)
  /\ pending' = None
  /\ uiPc' = "idle"
  /\ lastOp' = Op("EditBreakpoint", TRUE, EditBreakpointEvents)
  /\ UNCHANGED <<mcs, visible, crashed, emuSaw>>

\* OnLoad up to and including breakpoints.Clear(); both sections are there.
UiOnLoadClearBreakPoints(file) ==
  /\ Count
  /\ uiPc = "idle"
  /\ file.exists /\ file.bp # None /\ file.mc # None
  /\ bps' = BPClear(bps)
  /\ pending' = Some(file)
  /\ uiPc' = "OnLoad:BreakPoints.AddFromStrings"
  /\ lastOp' = Op("OnLoad", TRUE, <<"Clear">>)
  /\ UNCHANGED <<mcs, table, visible, crashed, emuSaw>>

\* OnLoad: breakpoints.AddFromStrings(new_bps) and then memchecks.Clear().
UiOnLoadAddBreakPoints ==
  /\ Count
  /\ uiPc = "OnLoad:BreakPoints.AddFromStrings"
  /\ bps' = BPAddFromStrings(bps, pending[1].bp[1])
  /\ mcs' = MCClear(mcs)
  /\ uiPc' = "OnLoad:MemChecks.AddFromStrings"
  /\ lastOp' = Op("OnLoad", TRUE, <<"Clear", "AddFromStrings", "Clear">>)
  /\ UNCHANGED <<pending, table, visible, crashed, emuSaw>>

\* OnLoad from memchecks.AddFromStrings(new_mcs) to its end.
UiOnLoadAddMemChecks ==
  /\ Count
  /\ uiPc = "OnLoad:MemChecks.AddFromStrings"
  /\ mcs' = MCAddFromStrings(mcs, pending[1].mc[1])
  /\ table' = Update(visible, table, bps, mcs')
  /\ pending' = None
  /\ uiPc' = "idle"
  /\ lastOp' = Op("OnLoad", TRUE, OnLoadEvents(pending[1]))
  /\ UNCHANGED <<bps, visible, crashed, emuSaw>>

\* The emulation thread fetches the instruction at pc and looks the address up
\* in the breakpoint store.
EmuFetch(pc) ==
  /\ Count
  /\ emuSaw' = Some([store |-> "BreakPoints", address |-> pc,
                     hit |-> \E k \in 1..Len(bps) :
                               bps[k].address = pc /\ bps[k].is_enabled,
                     during |-> uiPc])
  /\ UNCHANGED <<bps, mcs, table, visible, crashed, lastOp, uiPc, pending>>

\* The emulation thread accesses memory at address and looks for the enabled
\* memory checks whose range holds it.
EmuAccess(address) ==
  /\ Count
  /\ emuSaw' = Some([store |-> "MemChecks", address |-> address,
                     hit |-> \E k \in 1..Len(mcs) :
                               /\ mcs[k].is_enabled
                               /\ mcs[k].start_address <= address
                               /\ address <= mcs[k].end_address,
                     during |-> uiPc])
  /\ UNCHANGED <<bps, mcs, table, visible, crashed, lastOp, uiPc, pending>>

NextThreads ==
  \/ \E addr \in Addrs, i \in BPInputs : AddBP(addr, i[1], i[2], i[3], i[4])
  \/ \E addr \in Addrs, i \in MBPInputs :
       AddAddressMBP(addr, i[1], i[2], i[3], i[4], i[5])
  \/ \E address \in AllAddrs, e \in EditInputs :
       UiEditBreakpointRemove(address, e[1], e[2])
  \/ UiEditBreakpointAdd
  \/ \E file \in IniFiles : UiOnLoadClearBreakPoints(file)
  \/ UiOnLoadAddBreakPoints
  \/ UiOnLoadAddMemChecks
  \/ \E pc \in AllAddrs : EmuFetch(pc)
  \/ \E address \in AllAddrs : EmuAccess(address)

SpecThreads == Init /\ [][NextThreads]_vars

(***************************************************************************)
(* Properties.                                                             *)
(***************************************************************************)
\* The operations of the widget that are aimed at one entry.
AimedOps ==
  {"EditBreakpoint", "EditMBP", "OnClicked", "OnClickedEnabled", "OnClickedBP",
   "OnClickedMBP"}

\* The operations of the widget: add, edit, toggle, delete, clear, load, show.
WidgetOps ==
  {"AddBP", "AddAddressMBP", "AddRangedMBP", "EditBreakpoint", "EditMBP",
   "OnClickedEnabled", "OnClickedBP", "OnClickedMBP", "Delete", "OnClear", "OnLoad",
   "showEvent"}

\* The calls that change a store.
Mutators ==
  {"Add", "Remove", "ToggleBreakPoint", "Clear", "AddFromStrings",
   "ClearAllBreakpoints", "ClearAllMemChecks"}

\* C1: an edit or a click aimed at an address that its store does not hold
\* leaves both stores as they were and does not fault.
C1_AbsentTargetIsNoOp ==
  [][(lastOp'.name \in AimedOps /\ ~lastOp'.present)
       => (bps' = bps /\ mcs' = mcs /\ ~crashed')]_vars

\* C2: an address edit of an existing breakpoint or memory check whose text is
\* not valid hexadecimal leaves both stores as they were.
C2_InvalidAddressTextRejected ==
  [][\A a \in AllAddrs, t \in Texts :
       ~toUInt(t)[1] =>
         /\ (HasBP(bps, a) /\ EditBreakpoint(a, ADDRESS_COLUMN, Some(t)))
              => (bps' = bps /\ mcs' = mcs)
         /\ \A c \in {ADDRESS_COLUMN, END_ADDRESS_COLUMN} :
              (HasMC(mcs, a) /\ EditMBP(a, c, Some(t)))
                => (bps' = bps /\ mcs' = mcs)]_vars

\* An address edit of an existing breakpoint has just been rejected.
C2_Witness ==
  /\ lastOp.name = "EditBreakpoint"
  /\ lastOp.present
  /\ lastOp.events = <<>>
  /\ bps # <<>>

\* The last operation ran to its end on defined behaviour: no fault, and no
\* read through the null pointer of an entry that is not there.
Completed ==
  /\ ~crashed
  /\ lastOp.name \in {"EditBreakpoint", "EditMBP", "OnClickedBP", "OnClickedMBP"}
       => lastOp.present

\* C3 as claimed: after any operation of the widget that completes while the
\* widget is visible, the table has one row per breakpoint and then one row
\* per memory check, in store order, each with its entry's address and kind.
C3_TableReflectsStoresAfterAnyOp ==
  (lastOp.name \in WidgetOps /\ visible /\ Completed) => table = Rows(bps, mcs)

\* C3 amended: the same, after any operation that does not return early (a
\* load with no settings file, an address edit whose text is not hexadecimal
\* and a delete aimed at a row whose entry is gone return before Update()).
C3_TableReflectsStoresAfterUpdate ==
  (lastOp.name \in WidgetOps /\ lastOp.events # <<>> /\ visible /\ Completed)
    => table = Rows(bps, mcs)

\* An operation has redrawn a table that shows entries of both stores.
C3_Witness ==
  /\ lastOp.name \in WidgetOps
  /\ lastOp.events # <<>>
  /\ visible
  /\ bps # <<>>
  /\ mcs # <<>>
  /\ Len(table) = Len(bps) + Len(mcs)

\* BreakpointsChanged is emitted after the last call that changes a store.
EmitsAfterMutation(events) ==
  \E i \in 1..Len(events) :
    /\ events[i] = "emit"
    /\ \A j \in (i + 1)..Len(events) : events[j] \notin Mutators

\* C4: every operation of the widget that changes the contents of a store
\* emits BreakpointsChanged after the change and before it returns.
C4_MutationEmitsChanged ==
  [][(lastOp'.name \in (WidgetOps \cup AimedOps) /\ <<bps', mcs'>> # <<bps, mcs>>)
       => EmitsAfterMutation(lastOp'.events)]_vars

\* A click on the Active cell has just flipped an entry.
C4_Witness ==
  /\ lastOp.name = "OnClickedEnabled"
  /\ lastOp.present
  /\ EmitsAfterMutation(lastOp.events)

C7_RangedIffAddressesDiffer ==
  \A i \in 1..Len(mcs) :
    mcs[i].is_ranged = (mcs[i].start_address # mcs[i].end_address)

\* C8: two clicks in a row on the Active cell of an entry give back the
\* entry's is_enabled and leave both stores as they were before the first.
\* The first click is a step; the second is the click on the row that shows
\* the entry in the table the first click has redrawn.
C8_DoubleToggleRestores ==
  [][\A row \in 1..Len(table) :
       LET present == IF table[row].is_memcheck THEN HasMC(mcs, table[row].address)
                      ELSE HasBP(bps, table[row].address)
       IN  (present /\ OnClicked(row, ENABLED_COLUMN))
             => /\ \E again \in 1..Len(table') : table'[again] = table[row]
                /\ <<bps', mcs'>> # <<bps, mcs>>
                /\ \A again \in 1..Len(table') :
                     table'[again] = table[row]
                       => ToggledStores(bps', mcs', table'[again]) = <<bps, mcs>>]_vars

\* A first click has disabled an entry.
C8_Witness ==
  /\ lastOp.name = "OnClickedEnabled"
  /\ lastOp.present
  /\ \/ \E i \in 1..Len(bps) : ~bps[i].is_enabled
     \/ \E i \in 1..Len(mcs) : ~mcs[i].is_enabled

\* C9: after OnClear both stores are empty and the table has no row.
C9_ClearEmptiesAll ==
  lastOp.name = "OnClear" => (bps = <<>> /\ mcs = <<>> /\ table = <<>>)

\* OnClear has just run on stores that held entries, the widget hidden.
C9_Witness ==
  /\ lastOp.name = "OnClear"
  /\ lastOp.before[1] > 0
  /\ lastOp.before[2] > 0
  /\ ~visible

\* C10 as claimed: after a load with no settings file, or with a section
\* missing, the store of the missing section holds no entry.
C10_MissingSectionEmptiesStore ==
  [][\A file \in IniFiles :
       OnLoad(file)
         => /\ (~file.exists \/ file.bp = None) => bps' = <<>>
            /\ (~file.exists \/ file.mc = None) => mcs' = <<>>
            /\ ~crashed']_vars

\* C10 amended: after such a load the store of the missing section is as it
\* was before the load, and the load does not fault.
C10_MissingSectionKeepsStore ==
  [][\A file \in IniFiles :
       OnLoad(file)
         => /\ (~file.exists \/ file.bp = None) => bps' = bps
            /\ (~file.exists \/ file.mc = None) => mcs' = mcs
            /\ ~crashed']_vars

\* A load has found no settings file while the breakpoint store held entries.
C10_Witness ==
  /\ lastOp.name = "OnLoad"
  /\ ~lastOp.present
  /\ lastOp.before[1] > 0
  /\ bps # <<>>

\* C5: no hit evaluation reads a store while a handler of the widget is in the
\* middle of changing that store.
C5_HitEvaluationSerialized ==
  emuSaw # None => StoreInChange(emuSaw[1].during) # emuSaw[1].store

\* The fields of an entry that belong to column `edit`: the field a click on
\* the cell flips, or the field the text typed into the cell is for.  The
\* Type and Function cells have none, and neither has a cell that takes text
\* when it is only clicked.
ColumnFields(edit, string) ==
  CASE edit = ENABLED_COLUMN -> {"is_enabled"}
    [] edit = BREAK_COLUMN -> {"break_on_hit"}
    [] edit = LOG_COLUMN -> {"log_on_hit"}
    [] edit = READ_COLUMN -> {"is_break_on_read"}
    [] edit = WRITE_COLUMN -> {"is_break_on_write"}
    [] edit = ADDRESS_COLUMN /\ string # None -> {"address", "start_address"}
    [] edit = END_ADDRESS_COLUMN /\ string # None -> {"end_address"}
    [] edit = CONDITION_COLUMN /\ string # None -> {"condition"}
    [] OTHER -> {}

\* The fields compared: is_ranged follows from the two addresses and is left out.
FrameFields(entry, edit, string) ==
  (DOMAIN entry \ {"is_ranged"}) \ ColumnFields(edit, string)

\* The breakpoint at `address` is, after the step, at the address the edit
\* gives it, with its other fields as they were; the breakpoints at other
\* addresses and the memory checks are as they were.
BPFrame(address, edit, string) ==
  LET old == GetBreakpoint(bps, address)[1]
      at == EditBreakpointAddress(address, edit, string)[2]
  IN  /\ HasBP(bps', at)
      /\ \A f \in FrameFields(old, edit, string) :
           GetBreakpoint(bps', at)[1][f] = old[f]
      /\ \A other \in AllAddrs \ {address, at} :
           GetBreakpoint(bps', other) = GetBreakpoint(bps, other)
      /\ mcs' = mcs

\* The same for the memory check that starts at `address`.
MCFrame(address, edit, string) ==
  LET old == GetMemCheck(mcs, address)[1]
      at == EditMBPAddresses(old, edit, string)[2]
  IN  /\ HasMC(mcs', at)
      /\ \A f \in FrameFields(old, edit, string) :
           GetMemCheck(mcs', at)[1][f] = old[f]
      /\ \A other \in AllAddrs \ {address, at} :
           GetMemCheck(mcs', other) = GetMemCheck(mcs, other)
      /\ bps' = bps

\* C11: a click on a cell of an entry, or an edit of it with text that is
\* accepted, changes no field of the entry but the one of the cell's column,
\* and changes no other entry; a click on a cell with nothing to flip (Type,
\* Function, Condition) leaves the entry as it was.
C11_EditChangesOnlyItsField ==
  [][/\ \A address \in AllAddrs, e \in EditInputs :
          /\ ( /\ HasBP(bps, address)
               /\ EditBreakpointAddress(address, e[1], e[2])[1]
               /\ EditBreakpoint(address, e[1], e[2]) )
               => BPFrame(address, e[1], e[2])
          /\ ( /\ HasMC(mcs, address)
               /\ EditMBPAddresses(GetMemCheck(mcs, address)[1], e[1], e[2])[1]
               /\ EditMBP(address, e[1], e[2]) )
               => MCFrame(address, e[1], e[2])
     /\ \A row \in 1..Len(table), column \in Columns :
          LET address == table[row].address
          IN  /\ ( /\ ~table[row].is_memcheck
                   /\ HasBP(bps, address)
                   /\ OnClicked(row, column) )
                   => BPFrame(address, column, None)
              /\ ( /\ table[row].is_memcheck
                   /\ HasMC(mcs, address)
                   /\ OnClicked(row, column) )
                   => MCFrame(address, column, None)]_vars

\* The flags of a memory check.
MCFlags ==
  {"is_enabled", "is_break_on_read", "is_break_on_write", "log_on_hit", "break_on_hit"}

\* C12: after EditMBP(address, ADDRESS_COLUMN, text) on a memory check of the
\* store, with text the hexadecimal of n (n may be the address it already
\* starts at), the store holds a memory check that starts at n and has the
\* end address and the flags of the edited one, and the store holds as many
\* memory checks as before unless another one started at n.
C12_AddressEditKeepsWatch ==
  [][\A address \in AllAddrs, text \in Texts :
       ( /\ HasMC(mcs, address)
         /\ toUInt(text)[1]
         /\ EditMBP(address, ADDRESS_COLUMN, Some(text)) )
         => LET old == GetMemCheck(mcs, address)[1]
                n == toUInt(text)[2]
            IN  /\ HasMC(mcs', n)
                /\ GetMemCheck(mcs', n)[1].end_address = old.end_address
                /\ \A f \in MCFlags : GetMemCheck(mcs', n)[1][f] = old[f]
                /\ (n = address \/ ~HasMC(mcs, n)) => Len(mcs') = Len(mcs)]_vars

====
